---- MODULE Spec2Model ----
(***************************************************************************)
(* Model of the tap-climb game adapter: the two /score relay endpoints     *)
(* (apiserver/apiserver.py and bot/gamebot.py) and the bot's three         *)
(* handlers (play_cmd, game_callback, highscores_cmd).                      *)
(*                                                                         *)
(* Every handler is stateless: one action handles one inbound request or   *)
(* event from start to end, the outcome of the outbound call it makes      *)
(* being an input of the action.  The state records the event handled      *)
(* last and everything the handler did for it: the outbound calls, the     *)
(* HTTP response, the chat replies, the printed lines, and the exception   *)
(* that escaped it, if any.                                                 *)
(*                                                                         *)
(* Text is a sequence of fragments (strings); where the code works on      *)
(* characters (int() of a string, urlencode) the fragments are single      *)
(* characters.                                                              *)
(***************************************************************************)
EXTENDS Integers, Sequences, FiniteSets, TLC

VARIABLES handler, event, outbound, http, replies, logs, raised

vars == <<handler, event, outbound, http, replies, logs, raised>>

(***************************************************************************)
(* Bounds of the model.                                                     *)
(***************************************************************************)
\* Integers carried by requests and events range over -1 .. MaxId.
MaxId == 1
\* The external platform returns at most MaxScores high-score entries.
MaxScores == 2

(***************************************************************************)
(* Configuration (module level, read once from the environment).            *)
(***************************************************************************)
BOT_TOKEN == "<BOT_TOKEN>"
GAME_SHORT_NAME == "tapclimbjump"
PUBLIC_URL == <<"h","t","t","p",":","/","/","8",".","2","2","2",".","1","5","1",".","2","1","8">>
\* timeout=10 of the setGameScore call
SCORE_TIMEOUT == 10

(***************************************************************************)
(* Python / JSON values: a type tag, an integer part and a text part.       *)
(*   none   None (JSON null, or a key that is absent: dict.get gives None)  *)
(*   int    i                                                               *)
(*   bool   i = 1 for True, 0 for False (a bool is an int in Python)        *)
(*   float  a finite float whose integer part is i, s its fraction digits   *)
(*   inf    the float Infinity (json.loads accepts the literal)             *)
(*   str    s, a sequence of characters                                     *)
(*   list   a JSON array of i elements                                      *)
(*   dict   a JSON object of i keys (as a field's value)                    *)
(*   raise  not a value: the evaluation raised the exception named in s     *)
(***************************************************************************)
Val(t, i, s) == [t |-> t, i |-> i, s |-> s]
None == Val("none", 0, <<>>)
PyInt(n) == Val("int", n, <<>>)
PyBool(b) == Val("bool", IF b THEN 1 ELSE 0, <<>>)
PyFloat(n, frac) == Val("float", n, frac)
PyInf == Val("inf", 0, <<>>)
PyStr(s) == Val("str", 0, s)
PyList(n) == Val("list", n, <<>>)
PyDict(n) == Val("dict", n, <<>>)
Raise(name) == Val("raise", 0, <<name>>)

\* Python truthiness (`if x`, `x or y`, bool(x)).
Truthy(v) ==
    CASE v.t = "none" -> FALSE
      [] v.t \in {"int", "bool", "list", "dict"} -> v.i # 0
      [] v.t = "float" -> v.i # 0 \/ \E k \in 1..Len(v.s) : v.s[k] # "0"
      [] v.t = "str" -> Len(v.s) > 0
      [] OTHER -> TRUE

\* isinstance(v, int): ints and bools.
IsInstanceInt(v) == v.t \in {"int", "bool"}

Digits == <<"0","1","2","3","4","5","6","7","8","9">>
IsDigit(c) == \E d \in 1..10 : Digits[d] = c
DigitVal(c) == (CHOOSE d \in 1..10 : Digits[d] = c) - 1
IsSpace(c) == c \in {" ", "\t", "\n"}

RECURSIVE LStrip(_)
LStrip(s) == IF s # <<>> /\ IsSpace(Head(s)) THEN LStrip(Tail(s)) ELSE s
RECURSIVE RStrip(_)
RStrip(s) ==
    IF s # <<>> /\ IsSpace(s[Len(s)]) THEN RStrip(SubSeq(s, 1, Len(s) - 1)) ELSE s

RECURSIVE DigitsValue(_)
DigitsValue(s) ==
    IF s = <<>> THEN 0 ELSE 10 * DigitsValue(SubSeq(s, 1, Len(s) - 1)) + DigitVal(s[Len(s)])

\* int("..."): surrounding whitespace is ignored, one optional sign, then
\* one or more decimal digits; anything else is a ValueError.
IntOfStr(s) ==
    LET t == RStrip(LStrip(s))
        signed == t # <<>> /\ Head(t) \in {"+", "-"}
        body == IF signed THEN Tail(t) ELSE t
    IN  IF body # <<>> /\ \A k \in 1..Len(body) : IsDigit(body[k])
        THEN PyInt(IF signed /\ Head(t) = "-" THEN 0 - DigitsValue(body) ELSE DigitsValue(body))
        ELSE Raise("ValueError")

\* int(value)
PyIntOf(v) ==
    CASE v.t = "int" -> v
      [] v.t = "bool" -> PyInt(v.i)
      [] v.t = "float" -> PyInt(v.i)
      [] v.t = "inf" -> Raise("OverflowError")
      [] v.t = "str" -> IntOfStr(v.s)
      [] OTHER -> Raise("TypeError")

safe_int(value, allow_none) ==
    IF value = None /\ allow_none THEN None
    ELSE LET r == PyIntOf(value)
         IN  IF r.t = "raise" /\ r.s[1] \in {"ValueError", "TypeError"} THEN None ELSE r

(***************************************************************************)
(* The inbound /score request and the outbound setGameScore exchange.       *)
(***************************************************************************)
\* A key the JSON object does not have.
Absent == Val("absent", 0, <<>>)

ScoreKeys == {"user_name", "user_id", "chat_id", "message_id", "score", "inline_message_id"}
NoFields == [k \in ScoreKeys |-> Absent]

\* request.get_json(force=True, silent=True): None when the body does not
\* parse, else the parsed JSON value, whatever its type.
get_json(body) ==
    CASE body.kind = "unparseable" -> None
      [] body.kind = "object" -> PyDict(Cardinality({k \in ScoreKeys : body.fields[k] # Absent}))
      [] OTHER -> body.val

\* data = request.get_json(...) or {}
RequestData(body) ==
    LET parsed == get_json(body)
    IN  IF Truthy(parsed) THEN [val |-> parsed, fields |-> body.fields]
        ELSE [val |-> PyDict(0), fields |-> NoFields]

\* data.get(key) on a dict: None for a missing key.
DictGet(data, key) == IF data.fields[key] = Absent THEN None ELSE data.fields[key]

\* f"https://api.telegram.org/bot{BOT_TOKEN}/setGameScore"
SetGameScoreUrl == <<"https://api.telegram.org", "/bot", BOT_TOKEN, "/setGameScore">>

\* The text of the requests exception a failed POST to `url` raises: a refused
\* connection names the path of the URL it could not reach, a read timeout
\* does not.
ExcText(exc, url) ==
    IF exc = "ConnectionError"
    THEN <<"HTTPSConnectionPool(host='api.telegram.org', port=443): Max retries exceeded with url: ">>
         \o Tail(url) \o <<" (Caused by NewConnectionError)">>
    ELSE <<"HTTPSConnectionPool(host='api.telegram.org', port=443): Read timed out. (read timeout=10)">>

\* r.ok of requests: no 4xx or 5xx status.
ResponseOk(status) == status < 400

NoText == <<>>
NoException == [type |-> "", text |-> NoText]
Exception(type, text) == [type |-> type, text |-> text]

NoUpstream == [json |-> FALSE, val |-> None, ok |-> Absent, text |-> NoText]
NoEcho == [wrapped |-> FALSE, body |-> NoUpstream]

\* jsonify(**kwargs), status
Jsonify(keys, ok, error, telegram, status) ==
    [status |-> status, keys |-> keys, ok |-> ok, error |-> error, telegram |-> telegram]
\* No response written by the handler.
NoHttp == Jsonify({}, None, NoText, NoEcho, 0)
\* What the web framework answers when an exception escapes the view.
InternalServerError == Jsonify({}, None, NoText, NoEcho, 500)

LogLine(tag, text) == [tag |-> tag, text |-> text]

\* One outbound call to the external platform.
Call(api, url, args) == [api |-> api, url |-> url, args |-> args]

\* What one handler run leaves behind.
Result(o, h, r, l, x) == [outbound |-> o, http |-> h, replies |-> r, logs |-> l, raised |-> x]

\* A handler run that ends because an exception escaped it.
Escaped(o, l, x) == Result(o, InternalServerError, <<>>, l, x)

(***************************************************************************)
(* score_endpoint: the code the two endpoints share.                        *)
(***************************************************************************)
\* payload = {...}; if inline_message_id: ... else: ... (apiserver.py 49-60,
\* gamebot.py 99-110).  `rejected` stands for the 400 "missing message
\* identifiers" return inside the else branch.
\* The payload that keeps chat_id and message_id beside inline_message_id.
BuildPayload_KeepsChatIds(user_id, score, force, chat_id, message_id, inline_message_id) ==
    LET base == [k \in {"user_id", "score", "force"} |->
                    CASE k = "user_id" -> user_id
                      [] k = "score" -> score
                      [] OTHER -> PyBool(force)]
        ids == IF IsInstanceInt(chat_id) /\ IsInstanceInt(message_id)
               THEN ("chat_id" :> chat_id) @@ ("message_id" :> message_id) @@ base
               ELSE base
    IN  IF Truthy(inline_message_id)
        THEN [rejected |-> FALSE,
              payload |-> ("inline_message_id" :> inline_message_id) @@ ids]
        ELSE [rejected |-> ids = base, payload |-> ids]

BuildPayload(user_id, score, force, chat_id, message_id, inline_message_id) ==
    LET base == [k \in {"user_id", "score", "force"} |->
                    CASE k = "user_id" -> user_id
                      [] k = "score" -> score
                      [] OTHER -> PyBool(force)]
    IN  IF Truthy(inline_message_id)
        THEN [rejected |-> FALSE,
              payload |-> ("inline_message_id" :> inline_message_id) @@ base]
        ELSE IF ~(IsInstanceInt(chat_id) /\ IsInstanceInt(message_id))
        THEN [rejected |-> TRUE, payload |-> base]
        ELSE [rejected |-> FALSE,
              payload |-> ("chat_id" :> chat_id) @@ ("message_id" :> message_id) @@ base]

\* if not isinstance(user_id, int) or not isinstance(score, int)
InvalidUserOrScore(user_id, score) == ~IsInstanceInt(user_id) \/ ~IsInstanceInt(score)

\* The two 400 returns with the addressing tested first.
ValidationError_AddressingFirst(user_id, score, built) ==
    IF built.rejected THEN "missing message identifiers"
    ELSE IF InvalidUserOrScore(user_id, score) THEN "invalid user_id/score"
    ELSE ""

\* The two 400 returns in the order the code reaches them: user_id/score
\* first (apiserver.py 46-47, gamebot.py 96-97), then the addressing inside
\* the else branch of the payload (57-58, 107-108).  "" when neither returns.
ValidationError(user_id, score, built) ==
    IF InvalidUserOrScore(user_id, score) THEN "invalid user_id/score"
    ELSE IF built.rejected THEN "missing message identifiers"
    ELSE ""

BadRequest(error) == Jsonify({"ok", "error"}, PyBool(FALSE), <<error>>, NoEcho, 400)

\* The text print() writes for the request's data: the characters of its
\* string values, key by key.
DataText(data) ==
    data.val.s \o data.fields["user_name"].s \o data.fields["user_id"].s
    \o data.fields["chat_id"].s \o data.fields["message_id"].s
    \o data.fields["score"].s \o data.fields["inline_message_id"].s

\* requests.post(url, json=payload, timeout=10)
SetGameScore(payload) ==
    Call("setGameScore", SetGameScoreUrl, [json |-> payload, timeout |-> SCORE_TIMEOUT])

(***************************************************************************)
(* apiserver/apiserver.py: score_endpoint.                                   *)
(***************************************************************************)
\* body = r.json(), or {"raw": r.text} when the body is not JSON;
\* ok = bool(r.ok and isinstance(body, dict) and body.get("ok"));
\* return jsonify(ok=ok, telegram=body), (200 if ok else 502)
ApiRelay(up) ==
    LET wrapped == ~up.body.json
        isdict == wrapped \/ up.body.val.t = "dict"
        okfield == IF wrapped \/ up.body.ok = Absent THEN None ELSE up.body.ok
        ok == ResponseOk(up.status) /\ isdict /\ Truthy(okfield)
    IN  Jsonify({"ok", "telegram"}, PyBool(ok), NoText,
                [wrapped |-> wrapped, body |-> up.body], IF ok THEN 200 ELSE 502)

\* try: r = requests.post(...); print(result) / except RequestException: print, 502
ApiForward(payload, up, log) ==
    LET call == SetGameScore(payload)
    IN  IF up.exc # ""
        THEN LET text == ExcText(up.exc, call.url)
             IN  Result(<<call>>,
                        Jsonify({"ok", "error"}, PyBool(FALSE), text, NoEcho, 502),
                        <<>>,
                        Append(log, LogLine("[SCORE] request failed:",
                                            <<up.exc, "(">> \o text \o <<")">>)),
                        NoException)
        ELSE Result(<<call>>, ApiRelay(up), <<>>,
                    Append(log, LogLine("[SCORE] result status=", up.body.text)),
                    NoException)

ApiScoreEndpoint(body, up) ==
    LET data == RequestData(body)
        log == <<LogLine("[SCORE] request=", DataText(data))>>
        user_id == safe_int(DictGet(data, "user_id"), FALSE)
        chat_id == safe_int(DictGet(data, "chat_id"), TRUE)
        message_id == safe_int(DictGet(data, "message_id"), TRUE)
        score == safe_int(DictGet(data, "score"), FALSE)
        inline_message_id == DictGet(data, "inline_message_id")
        built == BuildPayload(user_id, score, FALSE, chat_id, message_id, inline_message_id)
        error == ValidationError(user_id, score, built)
    IN  IF data.val.t # "dict"
        THEN Escaped(<<>>, log, Exception("AttributeError", <<"object has no attribute 'get'">>))
        ELSE IF \E v \in {user_id, chat_id, message_id, score} : v.t = "raise"
        THEN Escaped(<<>>, log,
                     Exception("OverflowError", <<"cannot convert float infinity to integer">>))
        ELSE IF error # ""
        THEN Result(<<>>, BadRequest(error), <<>>, log, NoException)
        ELSE ApiForward(built.payload, up, log)

(***************************************************************************)
(* bot/gamebot.py: score_endpoint.                                           *)
(***************************************************************************)
\* r = requests.post(...); ok = r.ok and r.json().get("ok");
\* return jsonify(ok=bool(ok), telegram=r.json())
BotForward(payload, up, log) ==
    LET call == SetGameScore(payload)
        okfield == IF up.body.ok = Absent THEN None ELSE up.body.ok
        ok == ResponseOk(up.status) /\ Truthy(okfield)
    IN  IF up.exc # ""
        THEN Escaped(<<call>>, log, Exception(up.exc, ExcText(up.exc, call.url)))
        ELSE IF ~up.body.json
        THEN Escaped(<<call>>, log, Exception("JSONDecodeError", <<"Expecting value">>))
        ELSE IF ResponseOk(up.status) /\ up.body.val.t # "dict"
        THEN Escaped(<<call>>, log, Exception("AttributeError", <<"object has no attribute 'get'">>))
        ELSE Result(<<call>>,
                    Jsonify({"ok", "telegram"}, PyBool(ok), NoText,
                            [wrapped |-> FALSE, body |-> up.body], 200),
                    <<>>, log, NoException)

BotScoreEndpoint(body, up) ==
    LET data == RequestData(body)
        log == <<LogLine("[SCORE]", DataText(data))>>
        user_id == DictGet(data, "user_id")
        score == DictGet(data, "score")
        chat_id == DictGet(data, "chat_id")
        message_id == DictGet(data, "message_id")
        inline_message_id == DictGet(data, "inline_message_id")
        built == BuildPayload(user_id, score, TRUE, chat_id, message_id, inline_message_id)
        error == ValidationError(user_id, score, built)
    IN  IF data.val.t # "dict"
        THEN Escaped(<<>>, log, Exception("AttributeError", <<"object has no attribute 'get'">>))
        ELSE IF error # ""
        THEN Result(<<>>, BadRequest(error), <<>>, log, NoException)
        ELSE BotForward(built.payload, up, log)

(***************************************************************************)
(* Text conversions of the bot's handlers.                                   *)
(***************************************************************************)
RECURSIVE NatStr(_)
NatStr(n) == IF n < 10 THEN <<Digits[n + 1]>> ELSE NatStr(n \div 10) \o <<Digits[(n % 10) + 1]>>

\* str(n) of an int
IntStr(n) == IF n < 0 THEN <<"-">> \o NatStr(0 - n) ELSE NatStr(n)

\* str(v) as urlencode and the f-strings take it
PyStrOf(v) == IF v.t = "int" THEN IntStr(v.i) ELSE v.s

\* The characters of the model that quote_plus escapes, with their codes;
\* letters, digits and "_", ".", "-", "~" are left alone.
Escapes == <<
    <<" ", <<"+">> >>,
    <<":", <<"%", "3", "A">> >>,
    <<"/", <<"%", "2", "F">> >>,
    <<"?", <<"%", "3", "F">> >>,
    <<"&", <<"%", "2", "6">> >>,
    <<"=", <<"%", "3", "D">> >>,
    <<"+", <<"%", "2", "B">> >>,
    <<"%", <<"%", "2", "5">> >> >>

QuoteChar(c) ==
    IF \E k \in 1..Len(Escapes) : Escapes[k][1] = c
    THEN Escapes[CHOOSE k \in 1..Len(Escapes) : Escapes[k][1] = c][2]
    ELSE <<c>>

\* quote_plus that escapes nothing.
quote_plus_NoEscape(s) == s

\* urllib.parse.quote_plus
RECURSIVE quote_plus(_)
quote_plus(s) == IF s = <<>> THEN <<>> ELSE QuoteChar(Head(s)) \o quote_plus(Tail(s))

\* urllib.parse.urlencode of an ordered dict, given as a sequence of
\* <<key, value>> pairs: k=v joined by "&", both quoted.
RECURSIVE urlencode(_)
urlencode(params) ==
    IF params = <<>> THEN <<>>
    ELSE quote_plus(params[1][1]) \o <<"=">> \o quote_plus(PyStrOf(params[1][2]))
         \o (IF Len(params) > 1 THEN <<"&">> ELSE <<>>) \o urlencode(Tail(params))

K_api_base == <<"a","p","i","_","b","a","s","e">>
K_user_id == <<"u","s","e","r","_","i","d">>
K_inline_message_id == <<"i","n","l","i","n","e","_","m","e","s","s","a","g","e","_","i","d">>
K_chat_id == <<"c","h","a","t","_","i","d">>
K_message_id == <<"m","e","s","s","a","g","e","_","i","d">>

(***************************************************************************)
(* bot/gamebot.py: the three handlers.  `tg` is the outcome of the call to  *)
(* the external platform: "" when it returns, else the exception it raises, *)
(* which the handler lets escape.                                            *)
(***************************************************************************)
BotResult(calls, sent, tg) ==
    Result(calls, NoHttp, sent, <<>>,
           IF tg = "" THEN NoException ELSE Exception(tg, NoText))

\* play_cmd: send the game to the originating chat, in the originating thread.
PlayCmd(update, tg) ==
    BotResult(<<Call("sendGame", NoText,
                     [chat_id |-> update.chat_id,
                      game_short_name |-> GAME_SHORT_NAME,
                      message_thread_id |-> update.message_thread_id])>>,
              <<>>, tg)

\* The guard without its game_short_name test.
IgnoredCallback_OnlyMissingQuery(cq) == ~cq.present

\* if not cq or not cq.game_short_name: return
IgnoredCallback(cq) == ~cq.present \/ ~Truthy(cq.game_short_name)

\* params = {...}; if message: params["chat_id"] = ...; params["message_id"] = ...
LaunchParams(cq) ==
    <<  <<K_api_base, PyStr(PUBLIC_URL)>>,
        <<K_user_id, PyInt(cq.from_user_id)>>,
        <<K_inline_message_id,
          IF Truthy(cq.inline_message_id) THEN cq.inline_message_id ELSE PyStr(<<>>)>> >>
    \o (IF cq.message.present
        THEN << <<K_chat_id, PyInt(cq.message.chat_id)>>,
                <<K_message_id, PyInt(cq.message.message_id)>> >>
        ELSE <<>>)

\* game_url = f"{PUBLIC_URL}/climbgame/?{urlencode(params)}"
GameUrl(cq) ==
    PUBLIC_URL \o <<"/","c","l","i","m","b","g","a","m","e","/","?">> \o urlencode(LaunchParams(cq))

GameCallback(cq, tg) ==
    IF IgnoredCallback(cq) THEN BotResult(<<>>, <<>>, "")
    ELSE BotResult(<<Call("answerCallbackQuery", NoText,
                          [callback_query_id |-> cq.id, url |-> GameUrl(cq)])>>,
                   <<>>, tg)

\* The guard without its ref.game test.
NotAGameReply_OnlyMissingReply(ref) == ~ref.present

\* if not ref or not ref.game
NotAGameReply(ref) == ~ref.present \/ ~ref.game

\* f"{i+1}. {s.user.first_name}: {s.score}" for the entry at 0-based index i
ScoreLine(i, s) == IntStr(i + 1) \o <<".", " ">> \o s.first_name \o <<":", " ">> \o IntStr(s.score)

\* "\n".join(lines), lines[k] being the line of scores[k] (1-based k)
RECURSIVE JoinLines(_, _)
JoinLines(scores, k) ==
    IF k > Len(scores) THEN <<>>
    ELSE ScoreLine(k - 1, scores[k])
         \o (IF k < Len(scores) THEN <<"\n">> ELSE <<>>) \o JoinLines(scores, k + 1)

HighscoresCmd(update, tg, scores) ==
    LET ref == update.reply_to_message
        fetch == Call("getGameHighScores", NoText,
                      [user_id |-> update.user_id, chat_id |-> ref.chat_id,
                       message_id |-> ref.message_id])
    IN  IF NotAGameReply(ref)
        THEN BotResult(<<>>, << <<"Reply to a game message with /highscores.">> >>, "")
        ELSE IF tg # "" THEN BotResult(<<fetch>>, <<>>, tg)
        ELSE IF scores = <<>> THEN BotResult(<<fetch>>, << <<"No scores yet.">> >>, "")
        ELSE BotResult(<<fetch>>, <<JoinLines(scores, 1)>>, "")

(***************************************************************************)
(* The inputs: request bodies, upstream outcomes, platform events.           *)
(***************************************************************************)
IdInts == -1..MaxId
Naturals0 == 0..MaxId

UserIdValues ==
    {Absent, PyStr(<<"7">>), PyStr(<<"a","b","c">>), PyBool(TRUE), PyFloat(1, <<"5">>), PyInf}
    \cup {PyInt(n) : n \in IdInts}
ScoreValues == {Absent, PyStr(<<" ","1","0">>), PyInf} \cup {PyInt(n) : n \in Naturals0}
ChatIdValues == {Absent, None, PyInt(-1), PyStr(<<"-","7">>), PyStr(<<"x">>)}
MessageIdValues == {Absent, PyInt(MaxId), PyStr(<<"x">>)}
InlineIdValues == {Absent, PyStr(<<>>), PyStr(<<"a","b","c">>)}

ObjectFields ==
    [user_name : {Absent}, user_id : UserIdValues, chat_id : ChatIdValues,
     message_id : MessageIdValues, score : ScoreValues, inline_message_id : InlineIdValues]

\* JSON documents that are not objects.
NonObjectValues ==
    {None, PyInt(0), PyInt(MaxId), PyStr(<<>>), PyStr(<<"x">>), PyBool(FALSE), PyBool(TRUE),
     PyList(0), PyList(1)}

ScoreBodies ==
    {[kind |-> "unparseable", val |-> None, fields |-> NoFields]}
    \cup {[kind |-> "value", val |-> v, fields |-> NoFields] : v \in NonObjectValues}
    \cup {[kind |-> "object", val |-> None, fields |-> f] : f \in ObjectFields}

UpstreamBodies ==
    {[json |-> TRUE, val |-> PyDict(2), ok |-> PyBool(TRUE), text |-> <<"{ok: true, result: true}">>],
     [json |-> TRUE, val |-> PyDict(2), ok |-> PyInt(1), text |-> <<"{ok: 1, result: true}">>],
     [json |-> TRUE, val |-> PyDict(3), ok |-> PyBool(FALSE),
      text |-> <<"{ok: false, error_code: 400, description: Bad Request}">>],
     [json |-> TRUE, val |-> PyDict(1), ok |-> Absent, text |-> <<"{result: true}">>],
     [json |-> TRUE, val |-> PyList(0), ok |-> Absent, text |-> <<"[]">>],
     [json |-> FALSE, val |-> None, ok |-> Absent, text |-> <<"<html>Bad Gateway</html>">>]}

UpstreamStatuses == {200, 304, 403, 502}

NoOutcome == [exc |-> "none", status |-> 0, body |-> NoUpstream]
UpstreamOutcomes ==
    {[exc |-> e, status |-> 0, body |-> NoUpstream] : e \in {"ConnectionError", "ReadTimeout"}}
    \cup {[exc |-> "", status |-> st, body |-> b] : st \in UpstreamStatuses, b \in UpstreamBodies}

\* Outcomes of a call the bot makes through its platform client.
BotCallOutcomes == {"", "TelegramError"}

ThreadIds == {None, PyInt(MaxId)}

PlayUpdates == [chat_id : IdInts, message_thread_id : ThreadIds]

NoMessage == [present |-> FALSE, chat_id |-> 0, message_id |-> 0, message_thread_id |-> None]
Messages ==
    {NoMessage}
    \cup [present : {TRUE}, chat_id : IdInts, message_id : Naturals0, message_thread_id : ThreadIds]

NoCallbackQuery ==
    [present |-> FALSE, id |-> "", game_short_name |-> None, from_user_id |-> 0,
     inline_message_id |-> None, message |-> NoMessage]
CallbackQueries ==
    {NoCallbackQuery}
    \cup [present : {TRUE}, id : {"cq1"},
          game_short_name : {None, PyStr(<<>>), PyStr(<<GAME_SHORT_NAME>>)},
          from_user_id : Naturals0,
          inline_message_id : {None, PyStr(<<"A","-","b">>), PyStr(<<"a","&","="," ">>)},
          message : Messages]

NoReply == [present |-> FALSE, game |-> FALSE, chat_id |-> 0, message_id |-> 0]
HighscoresUpdates ==
    [user_id : Naturals0,
     reply_to_message :
        {NoReply} \cup [present : {TRUE}, game : BOOLEAN, chat_id : IdInts, message_id : Naturals0]]

HighScoreEntries == [first_name : {<<"A","n","n">>, <<"B","o">>}, score : {5, 10}]
HighScoreLists == UNION {[1..n -> HighScoreEntries] : n \in 0..MaxScores}

(***************************************************************************)
(* The state machine.                                                        *)
(***************************************************************************)
NoEvent == [kind |-> "none"]

Init ==
    /\ handler = "idle"
    /\ event = NoEvent
    /\ outbound = <<>>
    /\ http = NoHttp
    /\ replies = <<>>
    /\ logs = <<>>
    /\ raised = NoException

Handle(name, ev, r) ==
    /\ handler' = name
    /\ event' = ev
    /\ outbound' = r.outbound
    /\ http' = r.http
    /\ replies' = r.replies
    /\ logs' = r.logs
    /\ raised' = r.raised

\* POST /score served by apiserver.py
ScoreApi ==
    /\ handler = "idle"
    /\ \E body \in ScoreBodies, up \in UpstreamOutcomes :
            LET r == ApiScoreEndpoint(body, up)
            IN  Handle("apiserver.score_endpoint",
                       [body |-> body, upstream |-> IF r.outbound = <<>> THEN NoOutcome ELSE up], r)

\* POST /score served by gamebot.py
ScoreBot ==
    /\ handler = "idle"
    /\ \E body \in ScoreBodies, up \in UpstreamOutcomes :
            LET r == BotScoreEndpoint(body, up)
            IN  Handle("gamebot.score_endpoint",
                       [body |-> body, upstream |-> IF r.outbound = <<>> THEN NoOutcome ELSE up], r)

Play ==
    /\ handler = "idle"
    /\ \E update \in PlayUpdates, tg \in BotCallOutcomes :
            Handle("play_cmd", [update |-> update, tg |-> tg], PlayCmd(update, tg))

Callback ==
    /\ handler = "idle"
    /\ \E cq \in CallbackQueries, tg \in BotCallOutcomes :
            LET r == GameCallback(cq, tg)
            IN  Handle("game_callback",
                       [callback_query |-> cq, tg |-> IF r.outbound = <<>> THEN "" ELSE tg], r)

Highscores ==
    /\ handler = "idle"
    /\ \E update \in HighscoresUpdates, tg \in BotCallOutcomes, scores \in HighScoreLists :
            LET r == HighscoresCmd(update, tg, scores)
            IN  Handle("highscores_cmd",
                       [update |-> update,
                        tg |-> IF r.outbound = <<>> THEN "" ELSE tg,
                        scores |-> IF r.outbound = <<>> \/ tg # "" THEN <<>> ELSE scores], r)

\* The handler has returned: its value objects are discarded and the next
\* request or event is taken.
NextRequest ==
    /\ handler # "idle"
    /\ handler' = "idle"
    /\ event' = NoEvent
    /\ outbound' = <<>>
    /\ http' = NoHttp
    /\ replies' = <<>>
    /\ logs' = <<>>
    /\ raised' = NoException

Next == ScoreBot \/ ScoreApi \/ Play \/ Callback \/ Highscores \/ NextRequest

Spec == Init /\ [][Next]_vars

(***************************************************************************)
(* Properties of the /score endpoints.                                       *)
(***************************************************************************)
IsScoreRequest == handler \in {"apiserver.score_endpoint", "gamebot.score_endpoint"}

\* The field of the submitted JSON object, None when the key is missing.
Submitted(key) == IF event.body.fields[key] = Absent THEN None ELSE event.body.fields[key]

\* The field as the serving endpoint reads it: apiserver.py coerces the
\* numeric fields with int(), gamebot.py takes them as they are.
ReadField(key, allow_none) ==
    IF handler = "apiserver.score_endpoint"
    THEN safe_int(Submitted(key), allow_none) ELSE Submitted(key)

UserAndScoreAreIntegers ==
    IsInstanceInt(ReadField("user_id", FALSE)) /\ IsInstanceInt(ReadField("score", FALSE))
HasInlineId == Truthy(Submitted("inline_message_id"))
HasChatAndMessageId ==
    IsInstanceInt(ReadField("chat_id", TRUE)) /\ IsInstanceInt(ReadField("message_id", TRUE))

\* The submission reached the outbound call.
Forwarded == IsScoreRequest /\ outbound # <<>>
Payload == outbound[1].args.json

\* C1: every forwarded submission has one addressing shape in its payload:
\* inline_message_id alone when the submission carries a non-empty one (even
\* beside chat_id and message_id), else chat_id and message_id alone.
C1_OneAddressingShape ==
    Forwarded =>
        /\ UserAndScoreAreIntegers
        /\ HasInlineId \/ HasChatAndMessageId
        /\ IF HasInlineId
           THEN /\ DOMAIN Payload = {"user_id", "score", "force", "inline_message_id"}
                /\ Payload["inline_message_id"] = Submitted("inline_message_id")
           ELSE /\ DOMAIN Payload = {"user_id", "score", "force", "chat_id", "message_id"}
                /\ Payload["chat_id"] = ReadField("chat_id", TRUE)
                /\ Payload["message_id"] = ReadField("message_id", TRUE)

\* A forwarded submission that carried both addressing modes.
C1_Witness == Forwarded /\ HasInlineId /\ HasChatAndMessageId

TransportFailed == Forwarded /\ event.upstream.exc \in {"ConnectionError", "ReadTimeout"}
UpstreamAnswered == Forwarded /\ event.upstream.exc = ""

\* C2: a transport failure of the outbound call is answered 502 with ok:false
\* and an error string, and no exception escapes the handler.
C2_TransportFailureIs502 ==
    TransportFailed =>
        /\ raised = NoException
        /\ http.status = 502
        /\ http.keys = {"ok", "error"}
        /\ http.ok = PyBool(FALSE)
        /\ http.error # NoText

UpstreamSucceeded ==
    /\ event.upstream.status \in 200..299
    /\ event.upstream.body.json
    /\ event.upstream.body.val.t = "dict"
    /\ event.upstream.body.ok = PyBool(TRUE)

\* C3: the endpoint answers 200 ok:true exactly when the upstream status is
\* 2xx and its body is a JSON object whose ok is true; every other upstream
\* response is answered 502 ok:false; both echo the upstream body, wrapped as
\* raw text when it is not JSON.
C3_OkIffUpstreamOk ==
    UpstreamAnswered =>
        /\ raised = NoException
        /\ http.keys = {"ok", "telegram"}
        /\ http.telegram = [wrapped |-> ~event.upstream.body.json, body |-> event.upstream.body]
        /\ IF UpstreamSucceeded
           THEN http.status = 200 /\ http.ok = PyBool(TRUE)
           ELSE http.status = 502 /\ http.ok = PyBool(FALSE)

\* C4: a request answered 400 makes no outbound call, every other request
\* makes exactly one (setGameScore, never repeated).
C4_AtMostOneCall ==
    IsScoreRequest =>
        /\ Len(outbound) <= 1
        /\ http.status = 400 => outbound = <<>>
        /\ http.status # 400 => Len(outbound) = 1 /\ outbound[1].api = "setGameScore"

BadAddressing == ~HasInlineId /\ ~HasChatAndMessageId
AnsweredError(error) == http.status = 400 /\ http.error = <<error>>

\* C5 as claimed: addressing is validated first, so a submission with bad
\* addressing is answered "missing message identifiers" whatever its
\* user_id and score, and "invalid user_id/score" implies valid addressing.
C5_AddressingValidatedFirst ==
    IsScoreRequest /\ event.body.kind = "object" /\ raised = NoException =>
        /\ BadAddressing => AnsweredError("missing message identifiers")
        /\ AnsweredError("invalid user_id/score") => ~BadAddressing

\* C5 as amended: user_id and score are validated first.  "missing message
\* identifiers" is only answered to submissions whose user_id and score are
\* integers and whose addressing is bad; a 400 answered to a submission whose
\* user_id or score is not an integer is "invalid user_id/score" whatever its
\* addressing.
C5_UserAndScoreValidatedFirst ==
    IsScoreRequest =>
        /\ http.error = <<"missing message identifiers">> =>
              http.status = 400 /\ UserAndScoreAreIntegers /\ BadAddressing
        /\ http.error = <<"invalid user_id/score">> =>
              http.status = 400 /\ ~UserAndScoreAreIntegers
        /\ http.status = 400 =>
              /\ http.keys = {"ok", "error"} /\ http.ok = PyBool(FALSE)
              /\ http.error \in {<<"missing message identifiers">>, <<"invalid user_id/score">>}
              /\ outbound = <<>>

\* A submission with neither valid user_id/score nor valid addressing,
\* answered "invalid user_id/score".
C5_Witness ==
    /\ IsScoreRequest /\ event.body.kind = "object"
    /\ ~UserAndScoreAreIntegers /\ BadAddressing
    /\ AnsweredError("invalid user_id/score")

ContainsToken(text) == \E k \in 1..Len(text) : text[k] = BOT_TOKEN

\* C7: the bot token appears in no /score response body and in no logged
\* line, whatever the outcome of the outbound call.
C7_TokenNeverExposed ==
    IsScoreRequest =>
        /\ ~ContainsToken(http.error)
        /\ ~ContainsToken(http.telegram.body.text)
        /\ \A k \in 1..Len(logs) : ~ContainsToken(logs[k].text)

(***************************************************************************)
(* Reading a launch URL back, as the page that receives it does.             *)
(***************************************************************************)
\* The first position of character c in s, 0 when there is none.
IndexOf(s, c) ==
    IF \E k \in 1..Len(s) : s[k] = c THEN CHOOSE k \in 1..Len(s) : s[k] = c /\ \A j \in 1..(k - 1) : s[j] # c
    ELSE 0

RECURSIVE SplitOn(_, _)
SplitOn(s, c) ==
    LET k == IndexOf(s, c)
    IN  IF k = 0 THEN <<s>>
        ELSE <<SubSeq(s, 1, k - 1)>> \o SplitOn(SubSeq(s, k + 1, Len(s)), c)

RECURSIVE UnquotePlus(_)
UnquotePlus(s) ==
    IF s = <<>> THEN <<>>
    ELSE IF Head(s) = "+" THEN <<" ">> \o UnquotePlus(Tail(s))
    ELSE IF Head(s) = "%" /\ Len(s) >= 3
            /\ \E k \in 1..Len(Escapes) : Escapes[k][2] = SubSeq(s, 1, 3)
    THEN <<Escapes[CHOOSE k \in 1..Len(Escapes) : Escapes[k][2] = SubSeq(s, 1, 3)][1]>>
         \o UnquotePlus(SubSeq(s, 4, Len(s)))
    ELSE <<Head(s)>> \o UnquotePlus(Tail(s))

\* The query string of a URL: what follows its first "?".
QueryOf(url) == IF IndexOf(url, "?") = 0 THEN <<>> ELSE SubSeq(url, IndexOf(url, "?") + 1, Len(url))
PathOf(url) == IF IndexOf(url, "?") = 0 THEN url ELSE SubSeq(url, 1, IndexOf(url, "?") - 1)

\* The decoded <<key, value>> pairs of a URL's query string.
QueryPairs(url) ==
    LET parts == SplitOn(QueryOf(url), "&")
    IN  [k \in 1..Len(parts) |->
            LET eq == IndexOf(parts[k], "=")
            IN  IF eq = 0 THEN <<UnquotePlus(parts[k]), <<>> >>
                ELSE <<UnquotePlus(SubSeq(parts[k], 1, eq - 1)),
                       UnquotePlus(SubSeq(parts[k], eq + 1, Len(parts[k])))>>]

HasParam(url, key) == \E k \in 1..Len(QueryPairs(url)) : QueryPairs(url)[k][1] = key
ParamCount(url, key) == Cardinality({k \in 1..Len(QueryPairs(url)) : QueryPairs(url)[k][1] = key})
Param(url, key) ==
    QueryPairs(url)[CHOOSE k \in 1..Len(QueryPairs(url)) : QueryPairs(url)[k][1] = key][2]
\* The URL carries the parameter once, with this value.
Carries(url, key, value) == ParamCount(url, key) = 1 /\ Param(url, key) = value

(***************************************************************************)
(* Properties of the bot's handlers.                                         *)
(***************************************************************************)
IsCallback == handler = "game_callback"
\* The callback was answered.
Launched == IsCallback /\ outbound # <<>>
LaunchUrl == outbound[1].args.url
Query == event.callback_query
HasThreadId == Query.message.present /\ Query.message.message_thread_id # None
\* The name of the launch URL's parameter for a thread identifier.
K_thread_id == <<"t","h","r","e","a","d","_","i","d">>

\* What the launch URL carries apart from any thread identifier: the page's
\* address under the public base, api_base, the user's id, the inline message
\* id (empty when the event has none), and the chat and message ids exactly
\* when the event carries a message.
LaunchUrlAddressesEvent ==
    /\ PathOf(LaunchUrl) = PUBLIC_URL \o <<"/","c","l","i","m","b","g","a","m","e","/">>
    /\ Carries(LaunchUrl, K_api_base, PUBLIC_URL)
    /\ Carries(LaunchUrl, K_user_id, IntStr(Query.from_user_id))
    /\ Carries(LaunchUrl, K_inline_message_id, Query.inline_message_id.s)
    /\ IF Query.message.present
       THEN /\ Carries(LaunchUrl, K_chat_id, IntStr(Query.message.chat_id))
            /\ Carries(LaunchUrl, K_message_id, IntStr(Query.message.message_id))
       ELSE ~HasParam(LaunchUrl, K_chat_id) /\ ~HasParam(LaunchUrl, K_message_id)

\* C8 as claimed: the launch URL carries api_base, the user id, the event's
\* addressing identifiers, and thread_id whenever the event has a thread
\* identifier.
C8_LaunchUrlCarriesThreadId ==
    Launched =>
        /\ LaunchUrlAddressesEvent
        /\ HasThreadId =>
              Carries(LaunchUrl, K_thread_id, IntStr(Query.message.message_thread_id.i))

\* C8 as amended: the launch URL carries api_base, the user id and the
\* event's addressing identifiers, and never a thread_id parameter.
C8_LaunchUrlWithoutThreadId ==
    Launched => LaunchUrlAddressesEvent /\ ~HasParam(LaunchUrl, K_thread_id)

\* A callback answered for an event in a thread, whose inline message id
\* needs escaping.
C8_Witness ==
    /\ Launched /\ HasThreadId
    /\ \E k \in 1..Len(Query.inline_message_id.s) : Query.inline_message_id.s[k] = "&"

HasGameId ==
    Query.present /\ Query.game_short_name.t = "str" /\ Query.game_short_name.s # <<>>

\* C9: the callback is answered, once and with the launch URL, exactly when
\* the event carries a game identifier; without one the handler makes no
\* outbound call and sends nothing.
C9_AnswersIffGame ==
    IsCallback =>
        /\ replies = <<>>
        /\ IF HasGameId
           THEN /\ Len(outbound) = 1
                /\ outbound[1].api = "answerCallbackQuery"
                /\ outbound[1].args.callback_query_id = Query.id
                /\ PathOf(LaunchUrl) = PUBLIC_URL \o <<"/","c","l","i","m","b","g","a","m","e","/">>
           ELSE outbound = <<>> /\ raised = NoException

\* A callback event that has a query but no game identifier.
C9_Witness == IsCallback /\ Query.present /\ ~HasGameId /\ outbound = <<>>

IsHighscores == handler = "highscores_cmd"
RepliesToGame == event.update.reply_to_message.present /\ event.update.reply_to_message.game
\* The fetch of the high-score list returned (it did not raise).
Fetched == IsHighscores /\ outbound # <<>> /\ event.tg = ""

\* The line of the list for the entry ranked k (1-based).
RankLine(k, entry) ==
    IntStr(k) \o <<".", " ">> \o entry.first_name \o <<":", " ">> \o IntStr(entry.score)

\* C10: without a reply to a game message the handler sends the instruction
\* and fetches nothing; with one it fetches the list once, for the replied
\* message, and answers the list it gets with one reply: "No scores yet." for
\* the empty list, else one line per entry, ranked from 1 in upstream order.
C10_HighscoresOnlyOnGameReply ==
    IsHighscores =>
        IF ~RepliesToGame
        THEN /\ outbound = <<>>
             /\ replies = << <<"Reply to a game message with /highscores.">> >>
        ELSE /\ Len(outbound) = 1
             /\ outbound[1].api = "getGameHighScores"
             /\ outbound[1].args.chat_id = event.update.reply_to_message.chat_id
             /\ outbound[1].args.message_id = event.update.reply_to_message.message_id
             /\ Fetched =>
                   /\ Len(replies) = 1
                   /\ IF event.scores = <<>> THEN replies[1] = <<"No scores yet.">>
                      ELSE LET lines == SplitOn(replies[1], "\n")
                           IN  /\ Len(lines) = Len(event.scores)
                               /\ \A k \in 1..Len(lines) : lines[k] = RankLine(k, event.scores[k])
             /\ ~Fetched => replies = <<>>

\* A fetched list of two entries that are not in descending order of score.
C10_Witness ==
    /\ Fetched /\ Len(event.scores) >= 2
    /\ event.scores[1].score < event.scores[2].score
    /\ Len(replies) = 1

====
